---- MODULE Spec2Model ----
(***************************************************************************)
(* Model of the image client (services/geminiService: payload encoder,     *)
(* the two request functions, the response classifier) and of the App      *)
(* component's request handlers that call it.                              *)
(*                                                                         *)
(* A JavaScript string is a sequence of fragments; the string it stands    *)
(* for is the concatenation of its elements.  Every character the code     *)
(* looks for (',' ':' ';', line terminators, white space) is a fragment of *)
(* its own; runs of other characters ("data", "image/png", the literal     *)
(* pieces of an error message) are one fragment each.  The value undefined *)
(* is the one-element sequence undefined, which is no string.             *)
(***************************************************************************)
EXTENDS Integers, Sequences, FiniteSets, TLC

\* The encoder is applied to every string of up to MaxLen characters.
MaxLen == 6

\* ------------------------------------------------------------- JS strings
undefined == <<"<undefined>">>

\* null, which is no string either.
null == <<"<null>">>

\* JS truthiness of a string, undefined or null: undefined, null and "" are
\* falsy.
Truthy(v) == v \notin {undefined, null, <<>>}

\* Characters the encoder's input is drawn from: the three delimiters the
\* code looks for, a line terminator (which `.` of a RegExp does not match)
\* and an ordinary character.
Alphabet == {",", ":", ";", "\n", "a"}

LineTerminators == {"\n"}

WhiteSpace == {" ", "\n"}

StringsUpTo(n) == UNION {[1..k -> Alphabet] : k \in 0..n}

\* String.prototype.split(','): the pieces between the commas, in order.
RECURSIVE SplitFrom(_, _, _)
SplitFrom(s, i, piece) ==
    IF i > Len(s) THEN <<piece>>
    ELSE IF s[i] = "," THEN <<piece>> \o SplitFrom(s, i + 1, <<>>)
    ELSE SplitFrom(s, i + 1, Append(piece, s[i]))

Split(s) == SplitFrom(s, 1, <<>>)

\* The attempt of /:(.*?);/ at position i: s[i] is ':' and the lazy group
\* grows one character at a time until a ';' follows it; `.` refuses a line
\* terminator.  Gives the index of the closing ';', or 0 when the attempt fails.
RECURSIVE LazyUpToSemicolon(_, _)
LazyUpToSemicolon(s, j) ==
    IF j > Len(s) THEN 0
    ELSE IF s[j] = ";" THEN j
    ELSE IF s[j] \in LineTerminators THEN 0
    ELSE LazyUpToSemicolon(s, j + 1)

\* String.prototype.match(/:(.*?);/): the leftmost position where an attempt
\* succeeds.  null is [found |-> FALSE]; group is mimeMatch[1].
RECURSIVE MatchFrom(_, _)
MatchFrom(s, i) ==
    IF i > Len(s) THEN [found |-> FALSE, group |-> <<>>]
    ELSE IF s[i] = ":" /\ LazyUpToSemicolon(s, i + 1) # 0
         THEN [found |-> TRUE,
               group |-> SubSeq(s, i + 1, LazyUpToSemicolon(s, i + 1) - 1)]
    ELSE MatchFrom(s, i + 1)

MimeMatch(s) == MatchFrom(s, 1)

\* String.prototype.trim()
RECURSIVE TrimStart(_)
TrimStart(s) ==
    IF s # <<>> /\ Head(s) \in WhiteSpace THEN TrimStart(Tail(s)) ELSE s

RECURSIVE TrimEnd(_)
TrimEnd(s) ==
    IF s # <<>> /\ s[Len(s)] \in WhiteSpace
    THEN TrimEnd(SubSeq(s, 1, Len(s) - 1)) ELSE s

Trim(s) == TrimEnd(TrimStart(s))

\* ---------------------------------------------------------------- encoder
\* What an encoder call ends in: the part it returns, or the error it throws.
Part(mimeType, data) ==
    [ok |-> TRUE, mimeType |-> mimeType, data |-> data, error |-> <<>>]

Thrown(message) ==
    [ok |-> FALSE, mimeType |-> <<>>, data |-> <<>>, error |-> message]

InvalidDataUrl == <<"Invalid data URL">>

NoMimeType == <<"Could not parse MIME type from data URL">>

\* A mutant of dataUrlToPart: the payload is taken after the last comma.
dataUrlToPartLastPiece(dataUrl) ==
    LET arr == Split(dataUrl)
        mimeMatch == MimeMatch(arr[1])
    IN  IF Len(arr) < 2 THEN Thrown(InvalidDataUrl)
        ELSE IF ~mimeMatch.found \/ ~Truthy(mimeMatch.group) THEN Thrown(NoMimeType)
        ELSE Part(mimeMatch.group, arr[Len(arr)])

dataUrlToPart(dataUrl) ==
    LET arr == Split(dataUrl)
        mimeMatch == MimeMatch(arr[1])
    IN  IF Len(arr) < 2 THEN Thrown(InvalidDataUrl)
        ELSE IF ~mimeMatch.found \/ ~Truthy(mimeMatch.group) THEN Thrown(NoMimeType)
        ELSE Part(mimeMatch.group, arr[2])

\* The originalImage argument: a string, or a File.  A File is what
\* FileReader.readAsDataURL makes of it: the data URL handed to onload, or the
\* failure handed to onerror (a ProgressEvent, which has no message).
Str(dataUrl) == [isString |-> TRUE, readOk |-> TRUE, dataUrl |-> dataUrl]

File(dataUrl) == [isString |-> FALSE, readOk |-> TRUE, dataUrl |-> dataUrl]

UnreadableFile == [isString |-> FALSE, readOk |-> FALSE, dataUrl |-> <<>>]

ReadFailed == [ok |-> FALSE, mimeType |-> <<>>, data |-> <<>>, error |-> undefined]

fileToPart(file) ==
    IF ~file.readOk THEN ReadFailed
    ELSE LET arr == Split(file.dataUrl)
             mimeMatch == MimeMatch(arr[1])
         IN  IF Len(arr) < 2 THEN Thrown(InvalidDataUrl)
             ELSE IF ~mimeMatch.found \/ ~Truthy(mimeMatch.group)
                  THEN Thrown(NoMimeType)
             ELSE Part(mimeMatch.group, arr[2])

\* ------------------------------------------------------- remote responses
\* The most parts of a candidate, candidates of a response and images of a
\* generateImages response.
MaxParts == 2

MaxCandidates == 2

MaxImages == 2

SeqsUpTo(S, n) == UNION {[1..k -> S] : k \in 0..n}

\* A part of a candidate's content: a text part, or a part carrying inlineData.
TextPart == [hasInlineData |-> FALSE, mimeType |-> <<>>, data |-> <<>>]

InlinePart(mimeType, data) ==
    [hasInlineData |-> TRUE, mimeType |-> mimeType, data |-> data]

PartValues ==
    {TextPart, InlinePart(<<"image/png">>, <<"AAAA">>),
     InlinePart(<<"image/jpeg">>, <<"BBBB">>)}

FinishReasons == {undefined, <<"STOP">>, <<"SAFETY">>}

BlockReasons == {undefined, <<"SAFETY">>, <<"OTHER">>}

BlockReasonMessages == {undefined, <<"Blocked by policy.">>}

Texts == {undefined, <<>>, <<" ">>, <<" ", "hi", " ", "there", "\n">>}

\* candidates[0] ranges over every shape; the candidates after it over two.
FirstCandidates ==
    [parts : SeqsUpTo(PartValues, MaxParts), finishReason : FinishReasons]

LaterCandidates ==
    {[parts |-> <<InlinePart(<<"image/webp">>, <<"CCCC">>)>>, finishReason |-> <<"STOP">>],
     [parts |-> <<TextPart>>, finishReason |-> <<"SAFETY">>]}

CandidateLists ==
    {<<>>} \cup {<<c>> \o rest : c \in FirstCandidates,
                               rest \in SeqsUpTo(LaterCandidates, MaxCandidates - 1)}

\* A GenerateContentResponse as the code reads it.  blockReason and
\* blockReasonMessage are response.promptFeedback?.<field> (undefined also when
\* promptFeedback is missing); an empty candidates or parts list stands for a
\* missing one too, which `?.[0]` and `?.find` do not tell apart; text is the
\* response's text accessor.
ContentResponses ==
    [blockReason : BlockReasons, blockReasonMessage : BlockReasonMessages,
     candidates : CandidateLists, text : Texts]

\* An entry of generatedImages: img.image.imageBytes, or an entry whose image
\* is missing.
GeneratedImage(imageBytes) == [hasImage |-> TRUE, imageBytes |-> imageBytes]

ImagelessEntry == [hasImage |-> FALSE, imageBytes |-> <<>>]

GeneratedImageValues ==
    {GeneratedImage(<<"AAAA">>), GeneratedImage(<<"BBBB">>), ImagelessEntry}

\* A generateImages response: generatedImages, empty when it is missing.
ImagesResponses == [generatedImages : SeqsUpTo(GeneratedImageValues, MaxImages)]

\* --------------------------------------------------- response classifiers
\* What a call of a request function ends in: the value its promise resolves
\* to (url for generateImageFromImageAndText, urls for generateImageFromText)
\* or the message of the error it rejects with.
Returned(url) == [kind |-> "returned", url |-> url, urls |-> <<>>, message |-> <<>>]

ReturnedList(urls) == [kind |-> "returned", url |-> <<>>, urls |-> urls, message |-> <<>>]

Rejected(message) == [kind |-> "thrown", url |-> <<>>, urls |-> <<>>, message |-> message]

Pending == [kind |-> "pending", url |-> <<>>, urls |-> <<>>, message |-> <<>>]

\* `data:${mimeType};base64,${data}`
DataUrl(mimeType, data) == <<"data", ":">> \o mimeType \o <<";", "base64", ",">> \o data

BlockedPrefix == "Request was blocked. Reason: "

StoppedPrefix == "Image generation stopped unexpectedly. Reason: "

NoImagePrefix == "The AI model did not return an image. "

RephraseAdvice ==
    "This can happen due to safety filters or if the request is too complex. Please try rephrasing your prompt to be more direct."

NoImagesMessage ==
    <<"The AI model did not return any images. This may be due to safety filters or a problem with the prompt.">>

ImageBytesTypeError == <<"Cannot read properties of undefined (reading 'imageBytes')">>

\* blockReasonMessage || ''
OrEmpty(v) == IF Truthy(v) THEN v ELSE <<>>

\* response.candidates?.[0]?.content?.parts?.find(part => part.inlineData):
\* the index of the first part of the first candidate that carries inline
\* data, 0 when find gives undefined.
RECURSIVE FindInlineFrom(_, _)
FindInlineFrom(parts, i) ==
    IF i > Len(parts) THEN 0
    ELSE IF parts[i].hasInlineData THEN i
    ELSE FindInlineFrom(parts, i + 1)

\* A mutant of FirstCandidateParts: the parts of every candidate are searched.
RECURSIVE PartsOfAll(_, _)
PartsOfAll(candidates, i) ==
    IF i > Len(candidates) THEN <<>>
    ELSE candidates[i].parts \o PartsOfAll(candidates, i + 1)

AllCandidateParts(response) == PartsOfAll(response.candidates, 1)

FirstCandidateParts(response) ==
    IF response.candidates = <<>> THEN <<>> ELSE response.candidates[1].parts

\* response.candidates?.[0]?.finishReason
FirstFinishReason(response) ==
    IF response.candidates = <<>> THEN undefined
    ELSE response.candidates[1].finishReason

\* A mutant of TextFeedback: the text is not trimmed.
TextFeedbackUntrimmed(response) == response.text

\* response.text?.trim()
TextFeedback(response) ==
    IF response.text = undefined THEN undefined ELSE Trim(response.text)

\* A mutant of ClassifyContent: without an image the model's text is handed
\* back as the result.
ClassifyContentTextResult(response) ==
    LET parts == FirstCandidateParts(response)
        found == FindInlineFrom(parts, 1)
    IN  IF Truthy(response.blockReason)
        THEN Rejected(<<BlockedPrefix>> \o response.blockReason \o <<". ">>
                      \o OrEmpty(response.blockReasonMessage))
        ELSE IF found # 0
        THEN Returned(DataUrl(parts[found].mimeType, parts[found].data))
        ELSE IF Truthy(TextFeedback(response)) THEN Returned(TextFeedback(response))
        ELSE Rejected(<<NoImagePrefix, RephraseAdvice>>)

\* A mutant of ClassifyContent: the text-only fallback comes before the
\* finish reason.
ClassifyContentTextBeforeFinish(response) ==
    LET parts == FirstCandidateParts(response)
        found == FindInlineFrom(parts, 1)
        finishReason == FirstFinishReason(response)
        textFeedback == TextFeedback(response)
    IN  IF Truthy(response.blockReason)
        THEN Rejected(<<BlockedPrefix>> \o response.blockReason \o <<". ">>
                      \o OrEmpty(response.blockReasonMessage))
        ELSE IF found # 0
        THEN Returned(DataUrl(parts[found].mimeType, parts[found].data))
        ELSE IF Truthy(textFeedback)
        THEN Rejected(<<NoImagePrefix, "The model responded with text: \"">>
                      \o textFeedback \o <<"\"">>)
        ELSE IF Truthy(finishReason) /\ finishReason # <<"STOP">>
        THEN Rejected(<<StoppedPrefix>> \o finishReason
                      \o <<". This often relates to safety settings.">>)
        ELSE Rejected(<<NoImagePrefix, RephraseAdvice>>)

\* A mutant of ClassifyContent: the image part is looked for before the
\* block reason.
ClassifyContentImageFirst(response) ==
    LET parts == FirstCandidateParts(response)
        found == FindInlineFrom(parts, 1)
    IN  IF found # 0 THEN Returned(DataUrl(parts[found].mimeType, parts[found].data))
        ELSE IF Truthy(response.blockReason)
        THEN Rejected(<<BlockedPrefix>> \o response.blockReason \o <<". ">>
                      \o OrEmpty(response.blockReasonMessage))
        ELSE Rejected(<<NoImagePrefix, RephraseAdvice>>)

\* generateImageFromImageAndText from the response on: 1. the block reason,
\* 2. the image part, 3. the finish reason, then the text-only fallback.
ClassifyContent(response) ==
    LET parts == FirstCandidateParts(response)
        found == FindInlineFrom(parts, 1)
        finishReason == FirstFinishReason(response)
        textFeedback == TextFeedback(response)
    IN  IF Truthy(response.blockReason)
        THEN Rejected(<<BlockedPrefix>> \o response.blockReason \o <<". ">>
                      \o OrEmpty(response.blockReasonMessage))
        ELSE IF found # 0
        THEN Returned(DataUrl(parts[found].mimeType, parts[found].data))
        ELSE IF Truthy(finishReason) /\ finishReason # <<"STOP">>
        THEN Rejected(<<StoppedPrefix>> \o finishReason
                      \o <<". This often relates to safety settings.">>)
        ELSE IF Truthy(textFeedback)
        THEN Rejected(<<NoImagePrefix, "The model responded with text: \"">>
                      \o textFeedback \o <<"\"">>)
        ELSE Rejected(<<NoImagePrefix, RephraseAdvice>>)

\* response.generatedImages.map(img => `data:image/png;base64,${img.image.imageBytes}`);
\* reading imageBytes of a missing image throws a TypeError.
RECURSIVE MapImages(_, _)
MapImages(images, i) ==
    IF i > Len(images) THEN ReturnedList(<<>>)
    ELSE IF ~images[i].hasImage THEN Rejected(ImageBytesTypeError)
    ELSE LET rest == MapImages(images, i + 1)
         IN  IF rest.kind = "thrown" THEN rest
             ELSE ReturnedList(<<DataUrl(<<"image/png">>, images[i].imageBytes)>>
                               \o rest.urls)

\* A mutant of ClassifyImages: an empty list is mapped like any other.
ClassifyImagesUnchecked(response) == MapImages(response.generatedImages, 1)

\* generateImageFromText from the response on.
ClassifyImages(response) ==
    IF Len(response.generatedImages) = 0 THEN Rejected(NoImagesMessage)
    ELSE MapImages(response.generatedImages, 1)

\* ------------------------------------------------------ request functions
\* A call of a request function: where it stands (reading: awaiting
\* fileToPart; sent: awaiting the remote service; done: settled), the requests
\* it has sent to the remote service, the last request, the reply received and
\* what the call ended in.
NoPart == [ok |-> FALSE, mimeType |-> <<>>, data |-> <<>>, error |-> <<>>]

NoRequest == [image |-> NoPart, prompt |-> <<>>, aspectRatio |-> <<>>]

NoReply == [rejected |-> FALSE, message |-> <<>>, response |-> <<>>]

NewCall(fn, image, prompt) ==
    [fn |-> fn, pc |-> "start", image |-> image, prompt |-> prompt,
     requests |-> 0, request |-> NoRequest, received |-> FALSE,
     reply |-> NoReply, outcome |-> Pending]

\* ai.models.generateContent / ai.models.generateImages is called: one request
\* goes to the remote service and the call awaits the reply.
Send(call, image, aspectRatio) ==
    [call EXCEPT !.pc = "sent", !.requests = @ + 1,
                 !.request = [image |-> image, prompt |-> call.prompt,
                              aspectRatio |-> aspectRatio]]

\* The call's promise rejects with an error of this message.
Fail(call, message) == [call EXCEPT !.pc = "done", !.outcome = Rejected(message)]

\* A mutant of Encoded: the request is sent whatever the encoder ended in.
EncodedSendAnyway(call, part) == Send(call, part, <<>>)

\* generateImageFromImageAndText once the encoder has ended: its error
\* propagates, its part is sent with the prompt.
Encoded(call, part) ==
    IF part.ok THEN Send(call, part, <<>>) ELSE Fail(call, part.error)

\* generateImageFromText up to its await: the request is sent at once.
generateImageFromText(prompt, aspectRatio) ==
    Send(NewCall("generateImageFromText", Str(<<>>), prompt), NoPart, aspectRatio)

\* generateImageFromImageAndText up to its first await: a string is encoded
\* on the spot; a File is read first.
generateImageFromImageAndText(originalImage, userPrompt) ==
    LET call == NewCall("generateImageFromImageAndText", originalImage, userPrompt)
    IN  IF originalImage.isString
        THEN Encoded(call, dataUrlToPart(originalImage.dataUrl))
        ELSE [call EXCEPT !.pc = "reading"]

\* generateImageFromImageAndText resumes when the FileReader has fired.
FileToPartSettled(call) == Encoded(call, fileToPart(call.image))

\* A mutant of ReplyReceived: a call that ends in an error sends its request
\* once more.
ReplyReceivedRetrying(call, reply) ==
    LET settled == IF reply.rejected THEN Fail(call, reply.message)
                   ELSE [call EXCEPT !.pc = "done",
                            !.outcome = IF call.fn = "generateImageFromText"
                                        THEN ClassifyImages(reply.response)
                                        ELSE ClassifyContent(reply.response)]
    IN  IF settled.outcome.kind = "thrown" /\ call.requests < 2
        THEN Send(call, call.request.image, call.request.aspectRatio)
        ELSE [settled EXCEPT !.received = TRUE, !.reply = reply]

\* The awaited remote request settles: a rejection propagates; a response is
\* classified.
ReplyReceived(call, reply) ==
    LET settled == IF reply.rejected THEN Fail(call, reply.message)
                   ELSE [call EXCEPT !.pc = "done",
                            !.outcome = IF call.fn = "generateImageFromText"
                                        THEN ClassifyImages(reply.response)
                                        ELSE ClassifyContent(reply.response)]
    IN  [settled EXCEPT !.received = TRUE, !.reply = reply]

\* What the remote service may answer.
RejectionMessages == {<<"Failed to fetch">>, <<>>}

Rejections == [rejected : {TRUE}, message : RejectionMessages, response : {<<>>}]

ContentReplies ==
    Rejections \cup [rejected : {FALSE}, message : {<<>>}, response : ContentResponses]

ImagesReplies ==
    Rejections \cup [rejected : {FALSE}, message : {<<>>}, response : ImagesResponses]

\* ------------------------------------------------------------------ state
VARIABLES
    enc,    \* the encoder applied to one input: the input and the two results
    svc,    \* one call of a request function, from its call to its settling
    \* the state of the App component (useState):
    prompt, aspectRatio, generatedImages, isLoading, error, promptHistory,
    uploadedImage, uploadedImageUrl, activeImageUrl, editPrompt,
    loadingMessage, isUploadPanelOpen,
    calls,  \* the handler runs that await a request function, oldest first
    effectPending   \* the effect on generatedImages: "none", "scheduled" (a
                    \* render has scheduled it) or "flushing" (an event
                    \* handler has run since: React runs the effect before it
                    \* renders again)

appVars ==
    <<prompt, aspectRatio, generatedImages, isLoading, error, promptHistory,
      uploadedImage, uploadedImageUrl, activeImageUrl, editPrompt,
      loadingMessage, isUploadPanelOpen, calls, effectPending>>

vars == <<enc, svc, appVars>>

\* uploadedImage when no file is held.
NoFile == [isString |-> FALSE, readOk |-> FALSE, dataUrl |-> null]

\* The App component as first rendered.
AppInit ==
    /\ prompt = <<>>
    /\ aspectRatio = <<"1:1">>
    /\ generatedImages = <<>>
    /\ isLoading = FALSE
    /\ error = null
    /\ promptHistory = <<>>
    /\ uploadedImage = NoFile
    /\ uploadedImageUrl = null
    /\ activeImageUrl = null
    /\ editPrompt = <<>>
    /\ loadingMessage = <<"AI is creating...">>
    /\ isUploadPanelOpen = FALSE
    /\ calls = <<>>
    /\ effectPending = "none"

\* ------------------------------------------------- the encoder on its own
EncIdle == [input |-> <<>>, ran |-> {}, file |-> NoPart, string |-> NoPart]

SvcIdle == [NewCall("none", Str(<<>>), <<>>) EXCEPT !.pc = "idle"]

InitEnc ==
    /\ enc \in [input : StringsUpTo(MaxLen), ran : {{}}, file : {NoPart}, string : {NoPart}]
    /\ svc = SvcIdle
    /\ AppInit

\* fileToPart on a file whose data-URL reading is the input.
EncodeFile ==
    /\ "file" \notin enc.ran
    /\ enc' = [enc EXCEPT !.ran = @ \cup {"file"}, !.file = fileToPart(File(enc.input))]
    /\ UNCHANGED <<svc, appVars>>

\* dataUrlToPart on the input.
EncodeString ==
    /\ "string" \notin enc.ran
    /\ enc' = [enc EXCEPT !.ran = @ \cup {"string"}, !.string = dataUrlToPart(enc.input)]
    /\ UNCHANGED <<svc, appVars>>

NextEnc == EncodeFile \/ EncodeString

SpecEnc == InitEnc /\ [][NextEnc]_vars

\* ------------------------------------------- one request function call
ValidDataUrl == DataUrl(<<"image/png">>, <<"AAAA">>)

SampleDataUrls ==
    {ValidDataUrl,
     <<"data", ":", "image/png", ";", "base64">>,
     <<"data", ",", "AAAA">>,
     <<"data", ":", ";", "base64", ",", "AAAA">>,
     <<>>}

\* What a FileReader hands to onload: a well-formed data URL, or the bare
\* "data:" some browsers give for an empty file.
FileReadings == {ValidDataUrl, <<"data", ":">>}

OriginalImages ==
    {Str(u) : u \in SampleDataUrls} \cup {File(u) : u \in FileReadings}
    \cup {UnreadableFile}

UserPrompts == {<<"a">>, <<>>}

AspectRatios == {<<"1:1">>, <<"16:9">>, <<"9:16">>, <<"4:3">>, <<"3:4">>}

InitSvc ==
    /\ svc = SvcIdle
    /\ enc = EncIdle
    /\ AppInit

CallImageAndText ==
    /\ svc.pc = "idle"
    /\ \E originalImage \in OriginalImages, userPrompt \in UserPrompts :
           svc' = generateImageFromImageAndText(originalImage, userPrompt)
    /\ UNCHANGED <<enc, appVars>>

CallText ==
    /\ svc.pc = "idle"
    /\ \E text \in UserPrompts, ratio \in AspectRatios :
           svc' = generateImageFromText(text, ratio)
    /\ UNCHANGED <<enc, appVars>>

\* The FileReader fires onload or onerror.
SvcFileRead ==
    /\ svc.pc = "reading"
    /\ svc' = FileToPartSettled(svc)
    /\ UNCHANGED <<enc, appVars>>

\* generateContent settles.
SvcContentReply ==
    /\ svc.pc = "sent"
    /\ svc.fn = "generateImageFromImageAndText"
    /\ \E reply \in ContentReplies : svc' = ReplyReceived(svc, reply)
    /\ UNCHANGED <<enc, appVars>>

\* generateImages settles.
SvcImagesReply ==
    /\ svc.pc = "sent"
    /\ svc.fn = "generateImageFromText"
    /\ \E reply \in ImagesReplies : svc' = ReplyReceived(svc, reply)
    /\ UNCHANGED <<enc, appVars>>

\* The caller has the outcome; the next call may start.
SvcReturn ==
    /\ svc.pc = "done"
    /\ svc' = SvcIdle
    /\ UNCHANGED <<enc, appVars>>

NextSvc ==
    \/ CallImageAndText
    \/ CallText
    \/ SvcFileRead
    \/ SvcContentReply
    \/ SvcImagesReply
    \/ SvcReturn

SpecSvc == InitSvc /\ [][NextSvc]_vars

\* ------------------------------------------------ claims: the classifier
\* The vocabulary of the claims, stated on the response itself.
EditCall == svc.fn = "generateImageFromImageAndText"

TextCall == svc.fn = "generateImageFromText"

\* The call has settled on a response of the remote service.
Answered == svc.pc = "done" /\ svc.received /\ ~svc.reply.rejected

BlockReasonPresent(response) == response.blockReason # undefined

ImagePartPositions(response) ==
    IF response.candidates = <<>> THEN {}
    ELSE {i \in 1..Len(response.candidates[1].parts) :
              response.candidates[1].parts[i].hasInlineData}

ImagePartPresent(response) == ImagePartPositions(response) # {}

FirstImagePart(response) ==
    response.candidates[1].parts[
        CHOOSE i \in ImagePartPositions(response) :
            \A j \in ImagePartPositions(response) : i <= j]

FinishReasonOf(response) ==
    IF response.candidates = <<>> THEN undefined
    ELSE response.candidates[1].finishReason

FinishReasonOther(response) == FinishReasonOf(response) \notin {undefined, <<"STOP">>}

\* The text has a character that is not white space.
NonBlank(text) ==
    text # undefined /\ \E i \in 1..Len(text) : text[i] \notin WhiteSpace

\* q is text without its leading and trailing white space.
IsTrimOf(q, text) ==
    \E a, b \in 1..Len(text) :
        /\ q = SubSeq(text, a, b)
        /\ text[a] \notin WhiteSpace /\ text[b] \notin WhiteSpace
        /\ \A i \in 1..Len(text) : (i < a \/ i > b) => text[i] \in WhiteSpace

\* 'data:<mimeType>;base64,<data>'
IsDataUrl(url) ==
    /\ Len(url) >= 5
    /\ url[1] = "data" /\ url[2] = ":"
    /\ \E k \in 3..(Len(url) - 2) : url[k] = ";" /\ url[k + 1] = "base64" /\ url[k + 2] = ","

ThrownWith(prefix) ==
    svc.outcome.kind = "thrown" /\ svc.outcome.message # <<>>
    /\ svc.outcome.message[1] = prefix

\* C1: whatever the response, generateImageFromImageAndText ends in one of
\* four outcomes: it returns an image data URL, or throws the 'Request was
\* blocked', the 'Image generation stopped unexpectedly' or the 'The AI model
\* did not return an image' error; it returns nothing else and does not stay
\* without an outcome.
C1_FourOutcomes ==
    (EditCall /\ Answered) =>
        \/ svc.outcome.kind = "returned" /\ IsDataUrl(svc.outcome.url)
        \/ ThrownWith(BlockedPrefix)
        \/ ThrownWith(StoppedPrefix)
        \/ ThrownWith(NoImagePrefix)

C1_Witness ==
    /\ EditCall /\ Answered
    /\ ThrownWith(NoImagePrefix)
    /\ NonBlank(svc.reply.response.text)
    /\ Len(svc.reply.response.candidates) = MaxCandidates

\* C2: a block reason is checked first: with one in the response the call
\* throws 'Request was blocked. Reason: <blockReason>.', also when the
\* response carries an image part, a finish reason or text; no image is
\* returned.
C2_BlockedFirst ==
    (EditCall /\ Answered /\ BlockReasonPresent(svc.reply.response)) =>
        LET reason == svc.reply.response.blockReason
            message == svc.outcome.message
        IN  /\ svc.outcome.kind = "thrown"
            /\ Len(message) >= Len(reason) + 2
            /\ message[1] = BlockedPrefix
            /\ SubSeq(message, 2, Len(reason) + 1) = reason
            /\ message[Len(reason) + 2] = ". "

C2_Witness ==
    /\ EditCall /\ Answered
    /\ BlockReasonPresent(svc.reply.response)
    /\ ImagePartPresent(svc.reply.response)
    /\ FinishReasonOther(svc.reply.response)
    /\ NonBlank(svc.reply.response.text)
    /\ ThrownWith(BlockedPrefix)

\* C3: generateImageFromImageAndText returns if and only if the response has
\* no block reason and the first candidate has a part with inline data; it
\* then returns 'data:<mimeType>;base64,<data>' of the first such part of the
\* first candidate, whatever the finish reason; later candidates are not used.
C3_ReturnsFirstImage ==
    (EditCall /\ svc.pc = "done") =>
        /\ svc.outcome.kind = "returned" <=>
               /\ Answered
               /\ ~BlockReasonPresent(svc.reply.response)
               /\ ImagePartPresent(svc.reply.response)
        /\ svc.outcome.kind = "returned" =>
               svc.outcome.url =
                   <<"data", ":">> \o FirstImagePart(svc.reply.response).mimeType
                   \o <<";", "base64", ",">> \o FirstImagePart(svc.reply.response).data

C3_Witness ==
    /\ EditCall /\ Answered
    /\ svc.outcome.kind = "returned"
    /\ FinishReasonOther(svc.reply.response)
    /\ Len(svc.reply.response.candidates) = MaxCandidates
    /\ ImagePartPositions(svc.reply.response) = {2}

\* C4: without a block reason and without an image part in the first
\* candidate, a finish reason other than 'STOP' makes the call throw 'Image
\* generation stopped unexpectedly. Reason: <finishReason>'; the response's
\* text is not reported.
C4_StoppedBeforeText ==
    (/\ EditCall /\ Answered
     /\ ~BlockReasonPresent(svc.reply.response)
     /\ ~ImagePartPresent(svc.reply.response)
     /\ FinishReasonOther(svc.reply.response)) =>
        /\ svc.outcome.kind = "thrown"
        /\ svc.outcome.message =
               <<StoppedPrefix>> \o FinishReasonOf(svc.reply.response)
               \o <<". This often relates to safety settings.">>

C4_Witness ==
    /\ EditCall /\ Answered
    /\ ~BlockReasonPresent(svc.reply.response)
    /\ ~ImagePartPresent(svc.reply.response)
    /\ FinishReasonOther(svc.reply.response)
    /\ NonBlank(svc.reply.response.text)
    /\ ThrownWith(StoppedPrefix)

\* C5: without a block reason, without an image part in the first candidate
\* and with a finish reason that is missing or 'STOP', the call throws 'The AI
\* model did not return an image.'; the message quotes the trimmed text when
\* the text has a non-blank character and gives the rephrasing advice when the
\* text is missing, empty or blank.
C5_TextFallback ==
    (/\ EditCall /\ Answered
     /\ ~BlockReasonPresent(svc.reply.response)
     /\ ~ImagePartPresent(svc.reply.response)
     /\ ~FinishReasonOther(svc.reply.response)) =>
        LET text == svc.reply.response.text
            message == svc.outcome.message
        IN  /\ ThrownWith(NoImagePrefix)
            /\ NonBlank(text) =>
                   /\ Len(message) >= 4
                   /\ message[2] = "The model responded with text: \""
                   /\ message[Len(message)] = "\""
                   /\ IsTrimOf(SubSeq(message, 3, Len(message) - 1), text)
            /\ ~NonBlank(text) => message = <<NoImagePrefix, RephraseAdvice>>

C5_Witness ==
    /\ EditCall /\ Answered
    /\ ThrownWith(NoImagePrefix)
    /\ svc.reply.response.text = <<" ">>
    /\ FinishReasonOf(svc.reply.response) = <<"STOP">>
    /\ svc.outcome.message = <<NoImagePrefix, RephraseAdvice>>

\* --------------------------------------------------- claims: the encoder
BothEncoded == enc.ran = {"file", "string"}

CommaPositions(s) == {i \in 1..Len(s) : s[i] = ","}

FirstComma(s) == CHOOSE i \in CommaPositions(s) : \A j \in CommaPositions(s) : i <= j

\* The part before the first comma.
HeaderOf(s) == SubSeq(s, 1, FirstComma(s) - 1)

\* The text between the first and the second comma (the end, without a second).
DataOf(s) ==
    LET later == {i \in CommaPositions(s) : i > FirstComma(s)}
    IN  IF later = {} THEN SubSeq(s, FirstComma(s) + 1, Len(s))
        ELSE SubSeq(s, FirstComma(s) + 1,
                    (CHOOSE i \in later : \A j \in later : i <= j) - 1)

Least(S) == CHOOSE i \in S : \A j \in S : i <= j

\* The first ';' after position i of h, 0 without one.
NextSemicolon(h, i) ==
    LET after == {j \in (i + 1)..Len(h) : h[j] = ";"}
    IN  IF after = {} THEN 0 ELSE Least(after)

\* The text between the first ':' of h and the first ';' after it; undefined
\* when h has no ':' or no ';' after it.
BetweenFirstColonAndSemicolon(h) ==
    LET colons == {i \in 1..Len(h) : h[i] = ":"}
    IN  IF colons = {} \/ NextSemicolon(h, Least(colons)) = 0 THEN undefined
        ELSE SubSeq(h, Least(colons) + 1, NextSemicolon(h, Least(colons)) - 1)

\* The same, from the first ':' of h that has a ';' after it with no line
\* terminator in between.
BetweenColonAndSemicolonOnOneLine(h) ==
    LET colons == {i \in 1..Len(h) :
                      /\ h[i] = ":"
                      /\ NextSemicolon(h, i) # 0
                      /\ \A k \in (i + 1)..(NextSemicolon(h, i) - 1) :
                             h[k] \notin LineTerminators}
    IN  IF colons = {} THEN undefined
        ELSE SubSeq(h, Least(colons) + 1, NextSemicolon(h, Least(colons)) - 1)

\* C6, as stated: fileToPart of a file read as U and dataUrlToPart of U give
\* the same pair, or fail with the same error; the mimeType is the text
\* between the first ':' and the first following ';' of the part before the
\* first comma, the data the text between the first and the second comma.
C6_AsStated ==
    BothEncoded =>
        /\ enc.file = enc.string
        /\ enc.string.ok =>
               /\ enc.string.mimeType = BetweenFirstColonAndSemicolon(HeaderOf(enc.input))
               /\ enc.string.data = DataOf(enc.input)

\* C6, amended: fileToPart of a file read as U and dataUrlToPart of U give
\* the same pair, or fail with the same error; the mimeType is the text
\* between the first ':' of the header that has a ';' after it on the same
\* line and that ';', the data the text between the first and the second
\* comma; U without a comma fails with 'Invalid data URL', U whose header has
\* no such non-empty text with 'Could not parse MIME type from data URL'.
C6_SameEncoding ==
    BothEncoded =>
        /\ enc.file = enc.string
        /\ IF CommaPositions(enc.input) = {}
           THEN ~enc.string.ok /\ enc.string.error = InvalidDataUrl
           ELSE LET mime == BetweenColonAndSemicolonOnOneLine(HeaderOf(enc.input))
                IN  IF mime \in {undefined, <<>>}
                    THEN ~enc.string.ok /\ enc.string.error = NoMimeType
                    ELSE /\ enc.string.ok
                         /\ enc.string.mimeType = mime
                         /\ enc.string.data = DataOf(enc.input)

C6_Witness ==
    /\ BothEncoded
    /\ enc.string.ok /\ enc.file.ok
    /\ Cardinality(CommaPositions(enc.input)) = 2
    /\ enc.string.data # <<>>

\* ------------------------------------------ claims: the request functions
\* The header of s has no ':' with a ';' later than the character after it.
NoMimeSegment(s) ==
    LET h == HeaderOf(s)
    IN  ~\E i, j \in 1..Len(h) : i + 1 < j /\ h[i] = ":" /\ h[j] = ";"

\* C7: an image that cannot be encoded (a data URL without a comma: 'Invalid
\* data URL'; a header without a non-empty ':<mime>;' segment: 'Could not
\* parse MIME type from data URL'; a file whose reading fails) makes
\* generateImageFromImageAndText fail with that error, and no request has
\* been sent to the remote service.
C7_EncodeErrorBeforeRequest ==
    (EditCall /\ svc.pc \in {"sent", "done"}) =>
        LET image == svc.image
            failed(message) == /\ svc.pc = "done"
                               /\ svc.outcome = Rejected(message)
                               /\ svc.requests = 0
                               /\ ~svc.received
        IN  /\ (~image.isString /\ ~image.readOk) => failed(undefined)
            /\ (image.readOk /\ CommaPositions(image.dataUrl) = {}) =>
                   failed(InvalidDataUrl)
            /\ (image.readOk /\ CommaPositions(image.dataUrl) # {}
                   /\ NoMimeSegment(image.dataUrl)) => failed(NoMimeType)

C7_Witness ==
    /\ EditCall /\ svc.pc = "done"
    /\ ~svc.image.isString /\ svc.image.readOk
    /\ svc.outcome = Rejected(InvalidDataUrl)
    /\ svc.requests = 0

\* C8: generateImageFromText resolves to one data URL per image of the
\* response, in the response's order, each 'data:image/png;base64,<imageBytes>';
\* a missing or empty image list makes it throw 'The AI model did not return
\* any images...', and it never resolves to an empty array.
C8_OneUrlPerImage ==
    (TextCall /\ Answered) =>
        LET images == svc.reply.response.generatedImages
            urls == svc.outcome.urls
        IN  /\ images = <<>> => svc.outcome = Rejected(NoImagesMessage)
            /\ svc.outcome.kind = "returned" <=>
                   (images # <<>> /\ \A i \in 1..Len(images) : images[i].hasImage)
            /\ svc.outcome.kind = "returned" =>
                   /\ urls # <<>>
                   /\ Len(urls) = Len(images)
                   /\ \A i \in 1..Len(images) :
                          urls[i] = <<"data", ":", "image/png", ";", "base64", ",">>
                                    \o images[i].imageBytes

C8_Witness ==
    /\ TextCall /\ Answered
    /\ svc.outcome.kind = "returned"
    /\ Len(svc.outcome.urls) = MaxImages
    /\ svc.outcome.urls[1] # svc.outcome.urls[2]

\* C9: no retry: a call sends at most one request to the remote service,
\* exactly one once the payload has encoded, and whatever settles the request
\* (a rejection, a blocked or image-less response) ends the call with that one
\* request sent.
C9_AtMostOneRequest ==
    /\ svc.requests <= 1
    /\ svc.pc \in {"idle", "reading"} => svc.requests = 0
    /\ svc.pc = "sent" => svc.requests = 1 /\ ~svc.received
    /\ svc.received => svc.pc = "done" /\ svc.requests = 1
    /\ (svc.pc = "done" /\ TextCall) => svc.received
    /\ (svc.pc = "done" /\ EditCall /\ svc.image.readOk
           /\ CommaPositions(svc.image.dataUrl) # {}
           /\ ~NoMimeSegment(svc.image.dataUrl)) => svc.received

C9_Witness ==
    /\ svc.pc = "done" /\ svc.received
    /\ svc.outcome.kind = "thrown"
    /\ svc.requests = 1
    /\ svc.reply.rejected

\* ---------------------------------------------------- the App component
\* [prompt, ...promptHistory].slice(0, 10)
HistoryLimit == 10

\* No generation is started once generatedImages holds this many images.
MaxGenerated == 2

\* What the user may leave in the prompt and the edit prompt: nothing or a
\* text.
Prompts == {<<>>, <<"a">>}

EditPrompts == {<<>>, <<"e">>}

\* The aspect-ratio buttons offered (aspectRatios).
AppAspectRatios == {<<"1:1">>, <<"16:9">>, <<"9:16">>, <<"4:3">>, <<"3:4">>}

\* filters[i].prompt
FilterPrompts ==
    {<<"Apply a vintage, retro film filter. Give it a warm, faded look with slight grain.">>,
     <<"Convert this to a high-contrast, dramatic black and white.">>,
     <<"Enhance the colors to be more vibrant and saturated. Make it pop.">>,
     <<"Give this a cinematic look with teal and orange color grading.">>}

UpscalePrompt ==
    <<"Upscale this image, increasing its resolution and enhancing details. Make it sharper and clearer without altering the content.">>

EditInstruction(newAspectRatio) ==
    <<"Render this image at a new aspect ratio of ">> \o newAspectRatio
    \o <<". Intelligently expand the scene and composition to fill the new dimensions. Do not crop, stretch, or distort the original subject.">>

\* The files the user may pick.
Uploads == {File(ValidDataUrl), UnreadableFile}

\* URL.createObjectURL(file)
ObjectUrl(file) ==
    <<"blob", ":">> \o (IF file.readOk THEN file.dataUrl ELSE <<"unreadable">>)

\* What the remote service answers to the App's requests.
ImageResponse(mimeType, data) ==
    [blockReason |-> undefined, blockReasonMessage |-> undefined,
     candidates |-> <<[parts |-> <<TextPart, InlinePart(mimeType, data)>>,
                       finishReason |-> <<"STOP">>]>>,
     text |-> <<"done">>]

BlockedResponse ==
    [blockReason |-> <<"SAFETY">>, blockReasonMessage |-> undefined,
     candidates |-> <<>>, text |-> undefined]

Answer(response) == [rejected |-> FALSE, message |-> <<>>, response |-> response]

AppContentReplies ==
    Rejections
    \cup {Answer(ImageResponse(<<"image/png">>, <<"EEEE">>)),
          Answer(BlockedResponse)}

AppImagesReplies ==
    Rejections
    \cup {Answer([generatedImages |-> <<>>]),
          Answer([generatedImages |-> <<GeneratedImage(<<"AAAA">>)>>])}

\* promptHistory.includes(prompt)
Includes(list, x) == \E i \in 1..Len(list) : list[i] = x

\* A mutant of Slice: the history is never cut.
SliceNothing(list, n) == list

\* list.slice(0, n)
Slice(list, n) == SubSeq(list, 1, IF Len(list) < n THEN Len(list) ELSE n)

\* err.message || 'An unknown error occurred.'
OrUnknown(message) ==
    IF Truthy(message) THEN message ELSE <<"An unknown error occurred.">>

\* A mutant of ActiveAfter: the effect takes the first generated image.
ActiveAfterFirst(images) == IF Len(images) > 0 THEN images[1] ELSE activeImageUrl

\* The effect on generatedImages: the active image it sets.
ActiveAfter(images) == IF Len(images) > 0 THEN images[Len(images)] ELSE activeImageUrl

\* A mutant of TryCatch: the catch block also drops the uploaded image and
\* closes the upload panel, as the try block does after a success.
TryCatchResetting(handler, outcome) ==
    IF outcome.kind = "thrown"
    THEN /\ error' = OrUnknown(outcome.message)
         /\ uploadedImage' = NoFile
         /\ uploadedImageUrl' = null
         /\ isUploadPanelOpen' = FALSE
         /\ UNCHANGED <<generatedImages, activeImageUrl, editPrompt>>
    ELSE IF handler = "handleGenerate"
    THEN LET newImages == IF outcome.urls # <<>> THEN outcome.urls
                          ELSE <<outcome.url>>
         IN  /\ generatedImages' = generatedImages \o newImages
             /\ uploadedImage' = NoFile
             /\ uploadedImageUrl' = null
             /\ isUploadPanelOpen' = FALSE
             /\ UNCHANGED <<error, editPrompt, activeImageUrl>>
    ELSE /\ activeImageUrl' = outcome.url
         /\ editPrompt' = IF handler = "handleEditWithPrompt" THEN <<>> ELSE editPrompt
         /\ UNCHANGED <<error, generatedImages, uploadedImage, uploadedImageUrl,
                        isUploadPanelOpen>>

\* A handler's try and catch from the settling of its await on.
TryCatch(handler, outcome) ==
    IF outcome.kind = "thrown"
    THEN /\ error' = OrUnknown(outcome.message)
         /\ UNCHANGED <<generatedImages, uploadedImage, uploadedImageUrl,
                        isUploadPanelOpen, activeImageUrl, editPrompt>>
    ELSE IF handler = "handleGenerate"
    THEN LET newImages == IF outcome.urls # <<>> THEN outcome.urls
                          ELSE <<outcome.url>>
         IN  /\ generatedImages' = generatedImages \o newImages
             /\ uploadedImage' = NoFile
             /\ uploadedImageUrl' = null
             /\ isUploadPanelOpen' = FALSE
             /\ UNCHANGED <<error, editPrompt, activeImageUrl>>
    ELSE /\ activeImageUrl' = outcome.url
         /\ editPrompt' = IF handler = "handleEditWithPrompt" THEN <<>> ELSE editPrompt
         /\ UNCHANGED <<error, generatedImages, uploadedImage, uploadedImageUrl,
                        isUploadPanelOpen>>

\* A mutant of Continue: setIsLoading(false) ends the try block instead of
\* standing in finally.
ContinueWithoutFinally(handler, outcome) ==
    /\ TryCatch(handler, outcome)
    /\ isLoading' = (outcome.kind = "thrown")

\* A handler from the settling of its await on: try or catch, then finally.
Continue(handler, outcome) ==
    /\ TryCatch(handler, outcome)
    /\ isLoading' = FALSE

\* A handler from setIsLoading(true) to its await: the request function runs
\* up to its own first await; when it has already failed, catch and finally
\* follow at once.
Await(handler, call) ==
    IF call.pc = "done"
    THEN /\ Continue(handler, call.outcome)
         /\ UNCHANGED calls
    ELSE /\ isLoading' = TRUE
         /\ error' = null
         /\ calls' = Append(calls, [handler |-> handler, call |-> call])
         /\ UNCHANGED <<generatedImages, uploadedImage, uploadedImageUrl,
                        isUploadPanelOpen, activeImageUrl, editPrompt>>

\* A mutant of Refuse: the precondition is tested after setIsLoading(true).
RefuseWhileLoading(message) ==
    /\ error' = message
    /\ isLoading' = TRUE
    /\ UNCHANGED <<generatedImages, promptHistory, uploadedImage,
                   uploadedImageUrl, activeImageUrl, editPrompt, loadingMessage,
                   isUploadPanelOpen, calls>>

\* A handler stops at its precondition with this message.
Refuse(message) ==
    /\ error' = message
    /\ UNCHANGED <<generatedImages, isLoading, promptHistory, uploadedImage,
                   uploadedImageUrl, activeImageUrl, editPrompt, loadingMessage,
                   isUploadPanelOpen, calls>>

\* An event handler has run.  Its state updates make React render again, and
\* React runs a scheduled effect before it renders: after the handler the
\* effect is the next callback.
EventHandled ==
    /\ effectPending # "flushing"
    /\ effectPending' = IF effectPending = "scheduled" THEN "flushing"
                        ELSE effectPending

handleGenerate ==
    /\ IF ~Truthy(Trim(prompt)) /\ uploadedImage = NoFile
       THEN Refuse(<<"Please enter a prompt or upload an image.">>)
       ELSE /\ promptHistory' =
                   IF ~Includes(promptHistory, prompt) /\ Truthy(Trim(prompt))
                   THEN Slice(<<prompt>> \o promptHistory, HistoryLimit)
                   ELSE promptHistory
            /\ IF uploadedImage # NoFile
               THEN /\ loadingMessage' = <<"AI is editing...">>
                    /\ Await("handleGenerate",
                             generateImageFromImageAndText(uploadedImage, prompt))
               ELSE /\ loadingMessage' = <<"AI is creating...">>
                    /\ Await("handleGenerate",
                             generateImageFromText(prompt, aspectRatio))
    /\ UNCHANGED <<prompt, aspectRatio, enc, svc>>
    /\ EventHandled

handleUpscale ==
    /\ IF ~Truthy(activeImageUrl)
       THEN Refuse(<<"No active image to upscale.">>)
       ELSE /\ loadingMessage' = <<"Upscaling image...">>
            /\ Await("handleUpscale",
                     generateImageFromImageAndText(Str(activeImageUrl), UpscalePrompt))
            /\ UNCHANGED promptHistory
    /\ UNCHANGED <<prompt, aspectRatio, enc, svc>>
    /\ EventHandled

handleApplyFilter(filterPrompt) ==
    /\ IF ~Truthy(activeImageUrl)
       THEN Refuse(<<"No active image to apply a filter to.">>)
       ELSE /\ loadingMessage' = <<"Applying filter...">>
            /\ Await("handleApplyFilter",
                     generateImageFromImageAndText(Str(activeImageUrl), filterPrompt))
            /\ UNCHANGED promptHistory
    /\ UNCHANGED <<prompt, aspectRatio, enc, svc>>
    /\ EventHandled

handleEditWithPrompt ==
    /\ IF ~Truthy(activeImageUrl)
       THEN Refuse(<<"No active image to edit.">>)
       ELSE IF ~Truthy(Trim(editPrompt))
       THEN Refuse(<<"Please enter an edit instruction.">>)
       ELSE /\ loadingMessage' = <<"Applying your edit...">>
            /\ Await("handleEditWithPrompt",
                     generateImageFromImageAndText(Str(activeImageUrl), editPrompt))
            /\ UNCHANGED promptHistory
    /\ UNCHANGED <<prompt, aspectRatio, enc, svc>>
    /\ EventHandled

handleChangeAspectRatio(newAspectRatio) ==
    /\ IF ~Truthy(activeImageUrl)
       THEN Refuse(<<"No active image to edit.">>)
       ELSE /\ loadingMessage' = <<"Changing aspect ratio...">>
            /\ Await("handleChangeAspectRatio",
                     generateImageFromImageAndText(Str(activeImageUrl),
                                                   EditInstruction(newAspectRatio)))
            /\ UNCHANGED promptHistory
    /\ UNCHANGED <<prompt, aspectRatio, enc, svc>>
    /\ EventHandled

\* ------------------------------------------------ the user and the world
\* The prompt textarea (disabled while loading).
ChangePrompt ==
    /\ ~isLoading
    /\ \E text \in Prompts : prompt' = text
    /\ UNCHANGED <<enc, svc, aspectRatio, generatedImages, isLoading, error,
                   promptHistory, uploadedImage, uploadedImageUrl, activeImageUrl,
                   editPrompt, loadingMessage, isUploadPanelOpen, calls>>
    /\ EventHandled

\* Enter in the prompt textarea (disabled while loading).  MaxGenerated caps
\* the length of generatedImages, which the code lets grow without limit.
PromptKeyEnter ==
    /\ ~isLoading
    /\ Len(generatedImages) < MaxGenerated
    /\ handleGenerate

\* The Generate button (disabled while loading or with nothing to send).
ClickGenerate ==
    /\ ~(isLoading \/ (~Truthy(Trim(prompt)) /\ uploadedImage = NoFile))
    /\ Len(generatedImages) < MaxGenerated
    /\ handleGenerate

\* A button of the prompt history.
ClickHistory ==
    /\ \E i \in 1..Len(promptHistory) : prompt' = promptHistory[i]
    /\ UNCHANGED <<enc, svc, aspectRatio, generatedImages, isLoading, error,
                   promptHistory, uploadedImage, uploadedImageUrl, activeImageUrl,
                   editPrompt, loadingMessage, isUploadPanelOpen, calls>>
    /\ EventHandled

\* An aspect-ratio button of the prompt section.
ClickAspectRatio ==
    /\ \E ratio \in AppAspectRatios : aspectRatio' = ratio
    /\ UNCHANGED <<enc, svc, prompt, generatedImages, isLoading, error,
                   promptHistory, uploadedImage, uploadedImageUrl, activeImageUrl,
                   editPrompt, loadingMessage, isUploadPanelOpen, calls>>
    /\ EventHandled

\* The "Add Image" / "Using Image" button.
ToggleUploadPanel ==
    /\ isUploadPanelOpen' = ~isUploadPanelOpen
    /\ UNCHANGED <<enc, svc, prompt, aspectRatio, generatedImages, isLoading,
                   error, promptHistory, uploadedImage, uploadedImageUrl,
                   activeImageUrl, editPrompt, loadingMessage, calls>>
    /\ EventHandled

\* handleImageUpload: a file is picked through the upload button, which is
\* shown in the open panel while no image is held and disabled while loading.
handleImageUpload ==
    /\ isUploadPanelOpen /\ ~Truthy(uploadedImageUrl) /\ ~isLoading
    /\ \E file \in Uploads :
           /\ uploadedImage' = file
           /\ uploadedImageUrl' = ObjectUrl(file)
    /\ UNCHANGED <<enc, svc, prompt, aspectRatio, generatedImages, isLoading,
                   error, promptHistory, activeImageUrl, editPrompt,
                   loadingMessage, isUploadPanelOpen, calls>>
    /\ EventHandled

\* handleRemoveUploadedImage: the button on the preview of the held image.
handleRemoveUploadedImage ==
    /\ isUploadPanelOpen /\ Truthy(uploadedImageUrl)
    /\ uploadedImage' = NoFile
    /\ uploadedImageUrl' = null
    /\ UNCHANGED <<enc, svc, prompt, aspectRatio, generatedImages, isLoading,
                   error, promptHistory, activeImageUrl, editPrompt,
                   loadingMessage, isUploadPanelOpen, calls>>
    /\ EventHandled

\* The edit prompt input (disabled while loading or without an active image).
ChangeEditPrompt ==
    /\ ~(isLoading \/ ~Truthy(activeImageUrl))
    /\ \E text \in EditPrompts : editPrompt' = text
    /\ UNCHANGED <<enc, svc, prompt, aspectRatio, generatedImages, isLoading,
                   error, promptHistory, uploadedImage, uploadedImageUrl,
                   activeImageUrl, loadingMessage, isUploadPanelOpen, calls>>
    /\ EventHandled

\* Enter in the edit prompt input.
EditPromptKeyEnter ==
    /\ ~(isLoading \/ ~Truthy(activeImageUrl))
    /\ handleEditWithPrompt

\* The Apply button.
ClickApply ==
    /\ ~(isLoading \/ ~Truthy(activeImageUrl) \/ ~Truthy(Trim(editPrompt)))
    /\ handleEditWithPrompt

\* A mutant of ClickUpscale: the button is not disabled while loading.
ClickUpscaleWhileLoading ==
    /\ Truthy(activeImageUrl)
    /\ handleUpscale

\* The Enhance Resolution button.
ClickUpscale ==
    /\ ~(isLoading \/ ~Truthy(activeImageUrl))
    /\ handleUpscale

\* A filter button.
ClickFilter ==
    /\ ~(isLoading \/ ~Truthy(activeImageUrl))
    /\ \E filterPrompt \in FilterPrompts : handleApplyFilter(filterPrompt)

\* An aspect-ratio button of the edit panel.
ClickEditAspectRatio ==
    /\ ~(isLoading \/ ~Truthy(activeImageUrl))
    /\ \E ratio \in AppAspectRatios : handleChangeAspectRatio(ratio)

\* The close button of the error alert.
DismissError ==
    /\ Truthy(error)
    /\ error' = null
    /\ UNCHANGED <<enc, svc, prompt, aspectRatio, generatedImages, isLoading,
                   promptHistory, uploadedImage, uploadedImageUrl, activeImageUrl,
                   editPrompt, loadingMessage, isUploadPanelOpen, calls>>
    /\ EventHandled

\* useEffect(..., [generatedImages]): the render that follows a
\* continuation schedules the effect when generatedImages has changed.
EffectAfter(images) ==
    IF images # generatedImages THEN "scheduled" ELSE effectPending

Without(list, i) == SubSeq(list, 1, i - 1) \o SubSeq(list, i + 1, Len(list))

\* An awaited request function moves on to this state: when it has settled,
\* the handler that awaits it continues; otherwise the handler keeps waiting.
Resume(i, call) ==
    /\ effectPending # "flushing"
    /\ IF call.pc = "done"
       THEN /\ Continue(calls[i].handler, call.outcome)
            /\ calls' = Without(calls, i)
            /\ effectPending' = EffectAfter(generatedImages')
       ELSE /\ calls' = [calls EXCEPT ![i].call = call]
            /\ UNCHANGED <<generatedImages, isLoading, error, uploadedImage,
                           uploadedImageUrl, activeImageUrl, editPrompt,
                           isUploadPanelOpen, effectPending>>
    /\ UNCHANGED <<enc, svc, prompt, aspectRatio, promptHistory, loadingMessage>>

\* The FileReader of an awaited fileToPart fires.
FileReaderFires ==
    \E i \in 1..Len(calls) :
        /\ calls[i].call.pc = "reading"
        /\ Resume(i, FileToPartSettled(calls[i].call))

\* The remote request of an awaited request function settles.
RequestSettles ==
    \E i \in 1..Len(calls) :
        /\ calls[i].call.pc = "sent"
        /\ \E reply \in (IF calls[i].call.fn = "generateImageFromText"
                         THEN AppImagesReplies ELSE AppContentReplies) :
               Resume(i, ReplyReceived(calls[i].call, reply))

\* useEffect on generatedImages: the scheduled effect runs as a callback of
\* its own, after the render that scheduled it, and the active image becomes
\* the last generated.  Only continuations of handlers that await (which
\* come before the render) and one event handler can run before it, and
\* none of them changes generatedImages after that render.
EffectRuns ==
    /\ effectPending # "none"
    /\ activeImageUrl' = ActiveAfter(generatedImages)
    /\ effectPending' = "none"
    /\ UNCHANGED <<enc, svc, prompt, aspectRatio, generatedImages, isLoading,
                   error, promptHistory, uploadedImage, uploadedImageUrl,
                   editPrompt, loadingMessage, isUploadPanelOpen, calls>>

Init ==
    /\ enc = EncIdle
    /\ svc = SvcIdle
    /\ AppInit

Next ==
    \/ ChangePrompt
    \/ PromptKeyEnter
    \/ ClickGenerate
    \/ ClickHistory
    \/ ClickAspectRatio
    \/ ToggleUploadPanel
    \/ handleImageUpload
    \/ handleRemoveUploadedImage
    \/ ChangeEditPrompt
    \/ EditPromptKeyEnter
    \/ ClickApply
    \/ ClickUpscale
    \/ ClickFilter
    \/ ClickEditAspectRatio
    \/ DismissError
    \/ FileReaderFires
    \/ RequestSettles
    \/ EffectRuns

Spec == Init /\ [][Next]_vars

\* The remote service answers every request, every FileReader fires and
\* React runs every effect it has scheduled.
SpecLive ==
    Spec /\ WF_vars(FileReaderFires) /\ WF_vars(RequestSettles)
         /\ WF_vars(EffectRuns)

\* ------------------------------------------- the handlers called directly
\* The handlers as functions of the component, called in any state: no
\* disabled attribute stands between the caller and the handler.  No image is
\* uploaded here.
\* No handler is started while this many handler runs await their request.
MaxInFlight == 2

\* The prompts and edit prompts handed to the setters: blank or a text.
DirectPrompts == {<<" ">>, <<"a">>}

DirectEditPrompts == {<<" ">>, <<"e">>}

\* The aspect ratio handed to handleChangeAspectRatio.
DirectAspectRatios == {<<"9:16">>}

\* setPrompt
SetPrompt ==
    /\ \E text \in DirectPrompts : prompt' = text
    /\ UNCHANGED <<enc, svc, aspectRatio, generatedImages, isLoading, error,
                   promptHistory, uploadedImage, uploadedImageUrl, activeImageUrl,
                   editPrompt, loadingMessage, isUploadPanelOpen, calls>>
    /\ EventHandled

\* setEditPrompt
SetEditPrompt ==
    /\ \E text \in DirectEditPrompts : editPrompt' = text
    /\ UNCHANGED <<enc, svc, prompt, aspectRatio, generatedImages, isLoading,
                   error, promptHistory, uploadedImage, uploadedImageUrl,
                   activeImageUrl, loadingMessage, isUploadPanelOpen, calls>>
    /\ EventHandled

\* The filter handed to handleApplyFilter.
DirectFilterPrompts ==
    {<<"Convert this to a high-contrast, dramatic black and white.">>}

\* The generations awaited.
Generating == {i \in 1..Len(calls) : calls[i].handler = "handleGenerate"}

\* No generation is started that could take generatedImages past
\* MaxGenerated.
CallGenerate ==
    /\ Len(generatedImages) + Cardinality(Generating) < MaxGenerated
    /\ handleGenerate
    /\ Len(calls') <= MaxInFlight

CallUpscale ==
    /\ handleUpscale
    /\ Len(calls') <= MaxInFlight

CallApplyFilter ==
    /\ \E filterPrompt \in DirectFilterPrompts : handleApplyFilter(filterPrompt)
    /\ Len(calls') <= MaxInFlight

CallEditWithPrompt ==
    /\ handleEditWithPrompt
    /\ Len(calls') <= MaxInFlight

CallChangeAspectRatio ==
    /\ \E ratio \in DirectAspectRatios : handleChangeAspectRatio(ratio)
    /\ Len(calls') <= MaxInFlight

NextHandlers ==
    \/ SetPrompt
    \/ SetEditPrompt
    \/ CallGenerate
    \/ CallUpscale
    \/ CallApplyFilter
    \/ CallEditWithPrompt
    \/ CallChangeAspectRatio
    \/ RequestSettles
    \/ EffectRuns

SpecHandlers == Init /\ [][NextHandlers]_vars

\* ------------------------------------------------- the prompt history
\* The prompts a user types one after the other.  The handler tells prompts
\* apart only by equality and by being blank after trimming, so the prompts
\* not in the history are taken in this order; there is one more of them than
\* the history holds, and two of them differ only in trailing white space.
NewPrompts ==
    << <<"a">>, <<"a", " ">>, <<"b">>, <<"c">>, <<"d">>, <<"e">>, <<"f">>,
       <<"g">>, <<"h">>, <<"i">>, <<"j">> >>

IndexOf(text) == CHOOSE i \in 1..Len(NewPrompts) : NewPrompts[i] = text

\* The prompt after the newest of the history, which the history does not
\* hold: a prompt never typed before, or the one dropped longest ago.
NextNewPrompt ==
    IF promptHistory = <<>> THEN NewPrompts[1]
    ELSE NewPrompts[(IndexOf(promptHistory[1]) % Len(NewPrompts)) + 1]

\* The prompt textarea: a blank prompt or a prompt the history does not hold
\* (ClickHistory brings back the prompts it holds).
TypePrompt ==
    /\ ~isLoading
    /\ \E text \in {<<" ">>, NextNewPrompt} : prompt' = text
    /\ UNCHANGED <<enc, svc, aspectRatio, generatedImages, isLoading, error,
                   promptHistory, uploadedImage, uploadedImageUrl, activeImageUrl,
                   editPrompt, loadingMessage, isUploadPanelOpen, calls>>
    /\ EventHandled

NextHistory ==
    \/ TypePrompt
    \/ ClickHistory
    \/ PromptKeyEnter
    \/ ClickGenerate
    \/ ToggleUploadPanel
    \/ handleImageUpload
    \/ FileReaderFires
    \/ RequestSettles
    \/ EffectRuns

SpecHistory == Init /\ [][NextHistory]_vars

\* ------------------------------------------------------- claims: the App
\* C10: whenever a request handler has set isLoading, isLoading becomes false
\* again once its request has settled, after a success and after a failure
\* alike: isLoading is true only while a handler still awaits its request, and
\* with every request settling it always becomes false again.
C10_LoadingEnds ==
    /\ [](isLoading => calls # <<>>)
    /\ isLoading ~> ~isLoading

C10_Witness ==
    /\ ~isLoading
    /\ calls = <<>>
    /\ error = <<"Failed to fetch">>
    /\ loadingMessage = <<"Upscaling image...">>

\* The handlers whose request is awaited.
RequestHandlers ==
    {"handleGenerate", "handleUpscale", "handleApplyFilter",
     "handleEditWithPrompt", "handleChangeAspectRatio"}

\* What the awaited request function of calls[i] may settle to: the
\* FileReader's event while it reads, a reply of the service once it has sent.
Settlings(i) ==
    IF calls[i].call.pc = "reading"
    THEN {FileToPartSettled(calls[i].call)}
    ELSE IF calls[i].call.pc = "sent"
    THEN {ReplyReceived(calls[i].call, reply) :
              reply \in (IF calls[i].call.fn = "generateImageFromText"
                         THEN AppImagesReplies ELSE AppContentReplies)}
    ELSE {}

\* This step is the handler run calls[i] going on from its await, which
\* settled to call.
SettlesTo(i, call) ==
    /\ call.pc = "done"
    /\ Resume(i, call)

\* This step is a handler running up to its await.
HandlerStarts == Len(calls') = Len(calls) + 1

\* What a failing handler leaves alone.
KeptOnFailure ==
    <<activeImageUrl, generatedImages, uploadedImage, uploadedImageUrl,
      isUploadPanelOpen, editPrompt>>

\* C11: when the request of a request handler fails, error becomes the
\* failure's message, or 'An unknown error occurred.' when that message is
\* empty, and the handler leaves activeImageUrl, generatedImages,
\* uploadedImage, uploadedImageUrl, isUploadPanelOpen and editPrompt alone:
\* neither its run up to the await nor its run from the failure on changes
\* any of them.
C11_FailureKeepsState ==
    [][/\ HandlerStarts => UNCHANGED KeptOnFailure
       /\ \A i \in 1..Len(calls) : \A call \in Settlings(i) :
              (SettlesTo(i, call) /\ call.outcome.kind = "thrown") =>
                  /\ calls[i].handler \in RequestHandlers
                  /\ error' = (IF call.outcome.message \in {undefined, <<>>}
                               THEN <<"An unknown error occurred.">>
                               ELSE call.outcome.message)
                  /\ UNCHANGED KeptOnFailure]_vars

\* A generation from an uploaded image has failed without a message while an
\* image was active, an edit prompt typed and the upload panel open: all of
\* them are still there.
C11_Witness ==
    /\ ~isLoading
    /\ calls = <<>>
    /\ error = <<"An unknown error occurred.">>
    /\ loadingMessage = <<"AI is editing...">>
    /\ uploadedImage = File(ValidDataUrl)
    /\ Truthy(uploadedImageUrl)
    /\ isUploadPanelOpen
    /\ Truthy(activeImageUrl)
    /\ generatedImages # <<>>
    /\ editPrompt = <<"e">>

\* The handler that took this step stopped at its precondition with this
\* message: it started no handler run and sent no request, and left isLoading,
\* promptHistory, generatedImages and activeImageUrl as they were.
RefusedWith(message) ==
    /\ error' = message
    /\ calls' = calls
    /\ UNCHANGED <<isLoading, promptHistory, generatedImages, activeImageUrl>>

NoActiveImage == activeImageUrl \in {null, <<>>}

\* C12: a handler whose precondition fails sends no request: handleGenerate
\* with a prompt that is blank after trimming and no uploaded image, each of
\* the four edit handlers with no active image, and handleEditWithPrompt with
\* an active image and an edit prompt that is blank after trimming set error
\* to their message and leave isLoading, promptHistory, generatedImages,
\* activeImageUrl and the awaited requests unchanged.
C12_RefusalSendsNothing ==
    [][/\ (~NonBlank(prompt) /\ uploadedImage = NoFile /\ handleGenerate) =>
              RefusedWith(<<"Please enter a prompt or upload an image.">>)
       /\ (NoActiveImage /\ handleUpscale) =>
              RefusedWith(<<"No active image to upscale.">>)
       /\ \A filterPrompt \in FilterPrompts :
              (NoActiveImage /\ handleApplyFilter(filterPrompt)) =>
                  RefusedWith(<<"No active image to apply a filter to.">>)
       /\ (NoActiveImage /\ handleEditWithPrompt) =>
              RefusedWith(<<"No active image to edit.">>)
       /\ (~NoActiveImage /\ ~NonBlank(editPrompt) /\ handleEditWithPrompt) =>
              RefusedWith(<<"Please enter an edit instruction.">>)
       /\ \A ratio \in AppAspectRatios :
              (NoActiveImage /\ handleChangeAspectRatio(ratio)) =>
                  RefusedWith(<<"No active image to edit.">>)]_vars

\* handleUpscale was called with no active image while a generation was
\* awaited: the generation is still the one awaited request, isLoading is
\* still true and the history still holds the generation's prompt.
C12_Witness ==
    /\ error = <<"No active image to upscale.">>
    /\ activeImageUrl = null
    /\ generatedImages = <<>>
    /\ isLoading
    /\ Len(calls) = 1
    /\ calls[1].handler = "handleGenerate"
    /\ calls[1].call.requests = 1
    /\ promptHistory = <<<<"a">>>>

\* The history without its last prompt when it is full.
OlderKept(list) == IF Len(list) = 10 THEN SubSeq(list, 1, 9) ELSE list

\* This step is handleGenerate running up to its await, or through its catch
\* when its request function has failed before any await.
GenerateStarts ==
    /\ handleGenerate
    /\ ~(~NonBlank(prompt) /\ uploadedImage = NoFile)

\* This step is the request of a handleGenerate run failing.
GenerateFails ==
    \E i \in 1..Len(calls) : \E call \in Settlings(i) :
        /\ calls[i].handler = "handleGenerate"
        /\ SettlesTo(i, call)
        /\ call.outcome.kind = "thrown"

\* C13: promptHistory holds at most 10 prompts, no prompt twice and no prompt
\* that is blank after trimming.  It changes only when handleGenerate starts a
\* request with a non-blank prompt it does not hold: that prompt is put in
\* front of the others, which keep their order (most recently added first),
\* and of ten prompts the last, the oldest, is dropped.  The prompt is in the
\* history from the start of the request on, and a failing request leaves
\* the history as it is.
C13_HistoryOfPrompts ==
    /\ [](/\ Len(promptHistory) <= 10
          /\ \A i, j \in 1..Len(promptHistory) :
                 promptHistory[i] = promptHistory[j] => i = j
          /\ \A i \in 1..Len(promptHistory) : NonBlank(promptHistory[i]))
    /\ [][/\ (promptHistory' # promptHistory) =>
                 (/\ GenerateStarts
                  /\ NonBlank(prompt)
                  /\ \A i \in 1..Len(promptHistory) : promptHistory[i] # prompt
                  /\ promptHistory' = <<prompt>> \o OlderKept(promptHistory))
          /\ (GenerateStarts /\ NonBlank(prompt)) =>
                 (\E i \in 1..Len(promptHistory') : promptHistory'[i] = prompt)
          /\ GenerateFails => (promptHistory' = promptHistory)]_vars

\* Eleven prompts were sent one after the other and the request of the last
\* has failed: the history holds the ten newest, the newest first, and the
\* first prompt is gone.
C13_Witness ==
    /\ ~isLoading
    /\ calls = <<>>
    /\ error = <<"Failed to fetch">>
    /\ prompt = NewPrompts[11]
    /\ Len(promptHistory) = 10
    /\ promptHistory[1] = NewPrompts[11]
    /\ promptHistory[10] = NewPrompts[2]
    /\ \A i \in 1..10 : promptHistory[i] # NewPrompts[1]

\* The images a settled request function returned.
ResultOf(call) ==
    IF call.fn = "generateImageFromText" THEN call.outcome.urls
    ELSE <<call.outcome.url>>

\* This step is the effect on generatedImages running.
EffectStep == effectPending # "none" /\ effectPending' = "none"

\* C14: after any successful request the active image is the image that
\* request returned.  A successful upscale, filter, prompt edit or
\* aspect-ratio change replaces activeImageUrl with its result and leaves
\* generatedImages unchanged.  A successful handleGenerate appends its result
\* to generatedImages and schedules the effect on generatedImages; the effect
\* always runs, before any other request can return and after at most one
\* event handler, and with it the active image becomes the last element of
\* generatedImages, which is the last image that request returned, whatever
\* was active before.  Nothing else changes activeImageUrl or generatedImages.
C14_ActiveIsResult ==
    /\ [](/\ (effectPending # "none") => (generatedImages # <<>>)
          /\ (effectPending = "scheduled") => (calls = <<>> /\ ~isLoading))
    /\ [][/\ \A i \in 1..Len(calls) : \A call \in Settlings(i) :
                (SettlesTo(i, call) /\ call.outcome.kind = "returned") =>
                    IF calls[i].handler = "handleGenerate"
                    THEN /\ generatedImages' = generatedImages \o ResultOf(call)
                         /\ effectPending' = "scheduled"
                    ELSE /\ calls[i].handler \in RequestHandlers
                         /\ activeImageUrl' = call.outcome.url
                         /\ generatedImages' = generatedImages
          /\ EffectStep =>
                (/\ activeImageUrl' = generatedImages[Len(generatedImages)]
                 /\ generatedImages' = generatedImages)
          /\ (effectPending = "flushing") => EffectStep
          /\ (effectPending # "none") => (generatedImages' = generatedImages)
          /\ (activeImageUrl' # activeImageUrl) =>
                (EffectStep \/ Len(calls') < Len(calls))
          /\ (generatedImages' # generatedImages) =>
                (effectPending' = "scheduled" /\ Len(calls') < Len(calls))]_vars
    /\ (effectPending # "none") ~>
           (/\ effectPending = "none"
            /\ generatedImages # <<>>
            /\ activeImageUrl = generatedImages[Len(generatedImages)])

\* A generation from text has returned one image, an upscale of it has
\* returned another, and a generation from an uploaded image has then
\* returned a third and its effect has run: generatedImages holds the two
\* generated images, the active image is the second, the upload is gone and
\* nothing is loading.
C14_Witness ==
    /\ ~isLoading
    /\ calls = <<>>
    /\ effectPending = "none"
    /\ error = null
    /\ uploadedImage = NoFile
    /\ loadingMessage = <<"AI is editing...">>
    /\ generatedImages = <<DataUrl(<<"image/png">>, <<"AAAA">>),
                           DataUrl(<<"image/png">>, <<"EEEE">>)>>
    /\ activeImageUrl = generatedImages[2]

\* C15: at most one request is in flight at any time.  isLoading is true
\* exactly while a handler run awaits its request, there is never more than
\* one such run and it has sent at most one request, and while isLoading is
\* true no step starts another.
C15_OneRequestInFlight ==
    /\ [](/\ Len(calls) <= 1
          /\ isLoading <=> (calls # <<>>)
          /\ \A i \in 1..Len(calls) : calls[i].call.requests <= 1)
    /\ [][isLoading =>
              /\ Len(calls') <= Len(calls)
              /\ \A i \in 1..Len(calls') :
                     /\ calls'[i].handler = calls[i].handler
                     /\ calls'[i].call.prompt = calls[i].call.prompt
                     /\ calls'[i].call.requests <= 1]_vars

\* A request of handleGenerate is in flight while an image is active and an
\* edit prompt is typed: only isLoading disables the edit controls.
C15_Witness ==
    /\ isLoading
    /\ Len(calls) = 1
    /\ calls[1].handler = "handleGenerate"
    /\ calls[1].call.pc = "sent"
    /\ calls[1].call.requests = 1
    /\ Truthy(activeImageUrl)
    /\ NonBlank(editPrompt)
    /\ NonBlank(prompt)

====
